---------------------------- MODULE Spec2Model ----------------------------
(***************************************************************************)
(* A model of scraper.py: the text normalizers (clean_appearances,         *)
(* clean_rank), the reveal loop (expand_keyword_table), the row extractor  *)
(* (scrape_keyword_data), the sheet publisher (sync_to_google_sheets) and  *)
(* the run sequence (main).                                                *)
(*                                                                         *)
(* Text is a sequence of one-character strings, so that strip, lower,      *)
(* replace and the float/int parsers are computed character by character.  *)
(* Every call into the browser page, the spreadsheet client or the console *)
(* is a step that either succeeds or raises an Exception.                  *)
(***************************************************************************)
EXTENDS Integers, Sequences, FiniteSets, TLC

VARIABLES
    \* ---- the environment: the page, the process configuration
    moreBatches,      \* batches of rows the page still hides: the reveal control is visible iff > 0
    initialBatches,   \* moreBatches when the run started (history)
    pageRows,         \* the .keywords__row elements of the page, in page order
    SPREADSHEET_ID,   \* module global read from the environment, "" when unset
    \* ---- expand_keyword_table
    rpc,              \* position in expand_keyword_table
    expansion_count,  \* its local expansion_count
    reveal_ret,       \* its return value
    iterStart,        \* expansion_count when the current iteration began (history)
    probes,           \* is_visible() calls made (history)
    clicks,           \* click() calls that succeeded (history)
    waits,            \* wait_for_timeout() calls that succeeded (history)
    raisedAt,         \* the page call of the loop that raised, "none" if none did (history)
    pageCalls,        \* page calls the loop has made, raising ones included (history)
    callsAtRaise,     \* pageCalls when a page call raised (history)
    \* ---- scrape_keyword_data
    epc,              \* position in scrape_keyword_data
    rows,             \* its local rows
    rowIdx,           \* index of the row the for loop is at
    keywords_data,    \* its local keywords_data
    scrape_ret,       \* its return value
    emittedFrom,      \* page index of the row each appended record came from (history)
    listRaised,       \* the call listing the rows raised (history)
    \* ---- sync_to_google_sheets
    spc,              \* position in sync_to_google_sheets
    records,          \* its argument keywords_data (main's keywords_data)
    calls,            \* credential, client and request calls made, in order (history)
    sheet_names,      \* titles returned by the metadata fetch
    appended,         \* body["values"] of the append request that succeeded
    sync_ret,         \* its return value
    \* ---- main
    mpc,              \* position in main
    auth_storage,     \* what load_auth_storage returned: "state" or "none"
    pending,          \* an exception is propagating out of the with block
    pwStarted,        \* the playwright driver is running
    browserOpen,      \* the browser process is running
    contextOpen,      \* the browser context is open
    pageOpen,         \* the page is open
    launched,         \* the browser was launched during this run (history)
    failedAt,         \* the step of main that raised, "none" if none did (history)
    main_expansion_count,
    scraped_count,
    sync_successful,
    summaryPrinted,   \* the final summary was printed (history)
    exit_status       \* main's return value, -1 while it has not returned

envVars     == <<moreBatches, initialBatches, pageRows, SPREADSHEET_ID>>
revealVars  == <<rpc, expansion_count, reveal_ret, iterStart, probes, clicks, waits,
                 raisedAt, pageCalls, callsAtRaise>>
extractVars == <<epc, rows, rowIdx, keywords_data, scrape_ret, emittedFrom, listRaised>>
syncVars    == <<spc, records, calls, sheet_names, appended, sync_ret>>
mainVars    == <<mpc, auth_storage, pending, pwStarted, browserOpen, contextOpen, pageOpen, launched,
                 failedAt, main_expansion_count, scraped_count, sync_successful,
                 summaryPrinted, exit_status>>
vars        == <<envVars, revealVars, extractVars, syncVars, mainVars>>

-----------------------------------------------------------------------------
(* Bounds of the model *)

\* largest number of hidden batches a page starts with in SpecReveal (above the cap)
MaxBatches == 102
\* largest number of hidden batches a page starts with in SpecMain
MainBatches == 2
\* largest number of keyword rows on a page in SpecExtract
MaxRows == 3
\* largest number of keyword rows on a page in SpecMain
MainRows == 2
\* largest number of records handed to sync_to_google_sheets in SpecSync
MaxRecords == 2

-----------------------------------------------------------------------------
(* Program constants *)

\* max_attempts = 100
max_attempts == 100
\* "Need at least 3 spans: keyword, appearances, rank"
MinSpans == 3
\* SHEET_NAME = "Raw_Data"
SHEET_NAME == "Raw_Data"

-----------------------------------------------------------------------------
(* Text: str.strip, str.lower, str.replace, `in` *)

IsSpace(c) == c \in {" "}

Digits == {"0", "1", "2", "3", "4", "5", "6", "7", "8", "9"}

DigitVal(c) ==
    CASE c = "0" -> 0 [] c = "1" -> 1 [] c = "2" -> 2 [] c = "3" -> 3 [] c = "4" -> 4
      [] c = "5" -> 5 [] c = "6" -> 6 [] c = "7" -> 7 [] c = "8" -> 8 [] c = "9" -> 9

RECURSIVE LStrip(_)
LStrip(s) == IF s # <<>> /\ IsSpace(Head(s)) THEN LStrip(Tail(s)) ELSE s

RECURSIVE RStrip(_)
RStrip(s) ==
    IF s # <<>> /\ IsSpace(s[Len(s)]) THEN RStrip(SubSeq(s, 1, Len(s) - 1)) ELSE s

\* str.strip()
Strip(s) == RStrip(LStrip(s))

\* str.lower() on the letters the texts of the model use
LowerChar(c) ==
    CASE c = "K" -> "k" [] c = "N" -> "n" [] c = "A" -> "a" [] OTHER -> c

Lower(s) == [i \in DOMAIN s |-> LowerChar(s[i])]

\* str.replace(c, '')
RemoveChar(s, c) == SelectSeq(s, LAMBDA x : x # c)

\* c in s
Contains(s, c) == \E i \in DOMAIN s : s[i] = c

-----------------------------------------------------------------------------
(* float(text) and int(text), on texts over digits, sign, point, space and  *)
(* letters (no exponent, no underscore)                                    *)

RECURSIVE DigitsValue(_)
DigitsValue(ds) ==
    IF ds = <<>> THEN 0
    ELSE 10 * DigitsValue(SubSeq(ds, 1, Len(ds) - 1)) + DigitVal(ds[Len(ds)])

AllDigits(s) == \A i \in DOMAIN s : s[i] \in Digits

\* the text without one leading sign
Unsigned(s) == IF s # <<>> /\ Head(s) \in {"-", "+"} THEN Tail(s) ELSE s

IsNegative(s) == s # <<>> /\ Head(s) = "-"

\* index of the first "." of s, Len(s) + 1 when there is none
PointAt(s) ==
    IF Contains(s, ".") THEN CHOOSE i \in DOMAIN s : s[i] = "." /\ \A j \in 1..(i - 1) : s[j] # "."
    ELSE Len(s) + 1

\* float(text): [kind |-> "num", neg, ip, fp] for a decimal literal with integer
\* digits ip and fraction digits fp; "inf" and "nan" for the special literals;
\* "err" when float() raises ValueError
ParseFloat(text) ==
    LET s  == Strip(text)
        u  == Unsigned(s)
        p  == PointAt(u)
        ip == SubSeq(u, 1, p - 1)
        fp == SubSeq(u, p + 1, Len(u))
    IN  IF u \in {<<"i", "n", "f">>, <<"i", "n", "f", "i", "n", "i", "t", "y">>}
          THEN [kind |-> "inf", neg |-> IsNegative(s), ip |-> <<>>, fp |-> <<>>]
        ELSE IF u = <<"n", "a", "n">>
          THEN [kind |-> "nan", neg |-> IsNegative(s), ip |-> <<>>, fp |-> <<>>]
        ELSE IF AllDigits(ip) /\ AllDigits(fp) /\ Len(ip) + Len(fp) > 0
          THEN [kind |-> "num", neg |-> IsNegative(s), ip |-> ip, fp |-> fp]
        ELSE [kind |-> "err", neg |-> FALSE, ip |-> <<>>, fp |-> <<>>]

\* the first three fraction digits, as thousandths
Thousandths(fp) ==
    LET d(i) == IF i <= Len(fp) THEN DigitVal(fp[i]) ELSE 0
    IN  100 * d(1) + 10 * d(2) + d(3)

Signed(neg, n) == IF neg THEN 0 - n ELSE n

\* int(float(text)): truncation toward zero; 0 stands for the except branch
\* (ValueError from float(), ValueError/OverflowError from int() of nan/inf)
IntOfFloat(f) == IF f.kind = "num" THEN Signed(f.neg, DigitsValue(f.ip)) ELSE 0

\* int(float(text) * 1000): exact for the texts of the model, which carry at
\* most one fraction digit
IntOfFloatTimes1000(f) ==
    IF f.kind = "num"
      THEN Signed(f.neg, 1000 * DigitsValue(f.ip) + Thousandths(f.fp))
      ELSE 0

\* int(text): [ok, val]; ok = FALSE when int() raises ValueError
ParseInt(text) ==
    LET s == Strip(text)
        u == Unsigned(s)
    IN  IF u # <<>> /\ AllDigits(u)
          THEN [ok |-> TRUE, val |-> Signed(IsNegative(s), DigitsValue(u))]
          ELSE [ok |-> FALSE, val |-> 0]

-----------------------------------------------------------------------------
(* clean_appearances, clean_rank *)

clean_appearances(text) ==
    LET t == Lower(Strip(text))
    IN  IF Contains(t, "k")
          THEN IntOfFloatTimes1000(ParseFloat(RemoveChar(t, "k")))
          ELSE IntOfFloat(ParseFloat(t))

clean_rank(text) ==
    LET p == ParseInt(RemoveChar(Strip(text), "#"))
    IN  IF p.ok THEN p.val ELSE 0

-----------------------------------------------------------------------------
(* The page's keyword rows.  A row is what row.locator("span").all() and   *)
(* the spans' text_content() answer: spansRaise when listing the spans     *)
(* raises, and per span either its text or that reading it raises.         *)
(* text_content() of an element is always a string, so a span has no None  *)
(* text.                                                                   *)

Span(t)   == [kind |-> "text", text |-> t]
BadSpan   == [kind |-> "raise", text |-> <<>>]
Row(cs)   == [spansRaise |-> FALSE, cells |-> cs]
BadRow    == [spansRaise |-> TRUE, cells |-> <<>>]

TPython  == <<"P", "y", "t", "h", "o", "n">>
TJava    == <<"J", "a", "v", "a">>
TPadGo   == <<" ", "G", "o", " ">>
TBlank   == <<" ", " ">>
TEmpty   == <<>>
T1p2k    == <<"1", ".", "2", "k">>
T47      == <<"4", "7">>
T12      == <<"1", "2">>
THash3   == <<"#", "3">>
TNeg5    == <<"-", "5">>
TNeg1p2K == <<" ", "-", "1", ".", "2", "K">>
THashNeg3 == <<"#", "-", "3">>
TNa      == <<"n", "/", "a">>
THash    == <<"#">>

\* the rows of the end-to-end scenario
RowPython == Row(<<Span(TPython), Span(T1p2k), Span(THash3)>>)
RowJava   == Row(<<Span(TJava), Span(T47), Span(T12)>>)

\* rows a page may hold in SpecExtract
RowSamples ==
    { RowPython, RowJava,
      Row(<<>>),
      Row(<<Span(TPython), Span(T1p2k)>>),
      Row(<<Span(TPython), Span(T1p2k), Span(THash3), Span(TJava)>>),
      Row(<<Span(TPython), Span(T1p2k), Span(THash3), BadSpan>>),
      Row(<<Span(TBlank), Span(T47), Span(T12)>>),
      Row(<<Span(TEmpty), Span(T47), Span(T12)>>),
      Row(<<Span(TPadGo), Span(TNa), Span(THash)>>),
      Row(<<Span(TPadGo), Span(TNeg5), Span(THashNeg3)>>),
      Row(<<Span(TJava), Span(TNeg1p2K), Span(T12)>>),
      Row(<<BadSpan, Span(T47), Span(T12)>>),
      Row(<<Span(TJava), BadSpan, Span(T12)>>),
      Row(<<Span(TJava), Span(T47), BadSpan>>),
      BadRow }

\* rows a page may hold in SpecMain
MainRowSamples ==
    { RowPython, RowJava, Row(<<Span(TBlank), Span(T47), Span(T12)>>), BadRow }

SeqsUpTo(S, n) == UNION { [1..k -> S] : k \in 0..n }

-----------------------------------------------------------------------------
(* scrape_keyword_data *)

\* faulty variant: the skip test written len(spans) <= 3
HasEnoughSpans_Strict(spans) == Len(spans) > MinSpans

\* len(spans) < 3 is the skip test; this is its negation
HasEnoughSpans(spans) == Len(spans) >= MinSpans

\* One pass of the for loop's body on `row`: emit = TRUE with the record
\* appended, emit = FALSE when the row is skipped (continue, or the except
\* branch of the row's try).
RowOutcome(row) ==
    LET skip  == [emit |-> FALSE, rec |-> [keyword |-> <<>>, appearances |-> 0, rank |-> 0]]
        spans == row.cells
    IN  IF row.spansRaise THEN skip
        ELSE IF ~HasEnoughSpans(spans) THEN skip
        ELSE IF spans[1].kind = "raise" THEN skip
        ELSE IF spans[2].kind = "raise" THEN skip
        ELSE IF spans[3].kind = "raise" THEN skip
        ELSE LET keyword          == Strip(spans[1].text)
                 appearances_text == Strip(spans[2].text)
                 rank_text        == Strip(spans[3].text)
             IN  IF keyword = <<>> THEN skip
                 ELSE [emit |-> TRUE,
                       rec  |-> [keyword     |-> keyword,
                                 appearances |-> clean_appearances(appearances_text),
                                 rank        |-> clean_rank(rank_text)]]

\* scrape_keyword_data touches nothing but its own locals
ScrapeFrame == UNCHANGED <<envVars, revealVars, syncVars, mainVars>>

\* rows = page.locator(".keywords__row").all()
ScrapeListRows ==
    /\ epc = "start"
    /\ rows' = pageRows
    /\ rowIdx' = 1
    /\ epc' = "loop"
    /\ UNCHANGED <<keywords_data, scrape_ret, emittedFrom, listRaised>>
    /\ ScrapeFrame

\* the same call raising: the outer except returns []
ScrapeListRowsRaise ==
    /\ epc = "start"
    /\ listRaised' = TRUE
    /\ scrape_ret' = <<>>
    /\ epc' = "done"
    /\ UNCHANGED <<rows, rowIdx, keywords_data, emittedFrom>>
    /\ ScrapeFrame

\* one iteration of `for row in rows`
ScrapeRow ==
    /\ epc = "loop"
    /\ rowIdx <= Len(rows)
    /\ LET out == RowOutcome(rows[rowIdx])
       IN  /\ keywords_data' = IF out.emit THEN Append(keywords_data, out.rec)
                                           ELSE keywords_data
           /\ emittedFrom' = IF out.emit THEN Append(emittedFrom, rowIdx) ELSE emittedFrom
    /\ rowIdx' = rowIdx + 1
    /\ UNCHANGED <<epc, rows, scrape_ret, listRaised>>
    /\ ScrapeFrame

\* return keywords_data
ScrapeReturn ==
    /\ epc = "loop"
    /\ rowIdx > Len(rows)
    /\ scrape_ret' = keywords_data
    /\ epc' = "done"
    /\ UNCHANGED <<rows, rowIdx, keywords_data, emittedFrom, listRaised>>
    /\ ScrapeFrame

ScrapeStep ==
    \/ ScrapeListRows
    \/ ScrapeListRowsRaise
    \/ ScrapeRow
    \/ ScrapeReturn

-----------------------------------------------------------------------------
(* expand_keyword_table.  The page hides moreBatches batches of rows; the   *)
(* reveal control is visible while one is left and a click loads one.  The *)
(* loop stops at the first probe that finds the control not visible, so    *)
(* the number of leading visible probes is all it can observe of a control *)
(* that comes and goes.                                                    *)

\* the loop touches the page's hidden batches and its own locals
RevealFrame == UNCHANGED <<initialBatches, pageRows, SPREADSHEET_ID,
                           extractVars, syncVars, mainVars>>

\* faulty variant: the loop gives up one iteration early
LoopGuard_Short(c) == c + 1 < max_attempts

\* faulty variant: the loop test written <=
LoopGuard_Long(c) == c <= max_attempts

\* while expansion_count < max_attempts
LoopGuard(c) == c < max_attempts

\* faulty variant: the inner except continues with the next iteration
AfterRaise_Continue == "loop"

\* where control goes when a page call of the loop body raises: the inner
\* except logs and breaks, and the function returns
AfterRaise == "return"

\* faulty variant: the increment placed before the settle wait
CountAfterWaitRaise_Counted(c) == c + 1

\* the count after an iteration whose settle wait raised: the increment is
\* after the wait, so it is not reached
CountAfterWaitRaise(c) == c

\* the inner except branch, entered from page call `at`
RevealRaise(at) ==
    /\ raisedAt' = at
    /\ pageCalls' = pageCalls + 1
    /\ callsAtRaise' = pageCalls + 1
    /\ rpc' = AfterRaise

\* the while test
RevealLoopHead ==
    /\ rpc = "loop"
    /\ IF LoopGuard(expansion_count)
         THEN rpc' = "locate" /\ iterStart' = expansion_count
         ELSE rpc' = "return" /\ UNCHANGED iterStart
    /\ UNCHANGED <<moreBatches, expansion_count, reveal_ret, probes, clicks, waits,
                   raisedAt, pageCalls, callsAtRaise>>
    /\ RevealFrame

\* page.locator('button:has-text(...)').first
RevealLocate ==
    /\ rpc = "locate"
    /\ rpc' = "probe"
    /\ pageCalls' = pageCalls + 1
    /\ UNCHANGED <<moreBatches, expansion_count, reveal_ret, iterStart, probes, clicks,
                   waits, raisedAt, callsAtRaise>>
    /\ RevealFrame

RevealLocateRaise ==
    /\ rpc = "locate"
    /\ RevealRaise("locate")
    /\ UNCHANGED <<moreBatches, expansion_count, reveal_ret, iterStart, probes, clicks,
                   waits>>
    /\ RevealFrame

\* if not voir_plus_button.is_visible(): break
RevealProbe ==
    /\ rpc = "probe"
    /\ probes' = probes + 1
    /\ rpc' = IF moreBatches > 0 THEN "click" ELSE "return"
    /\ pageCalls' = pageCalls + 1
    /\ UNCHANGED <<moreBatches, expansion_count, reveal_ret, iterStart, clicks, waits,
                   raisedAt, callsAtRaise>>
    /\ RevealFrame

RevealProbeRaise ==
    /\ rpc = "probe"
    /\ probes' = probes + 1
    /\ RevealRaise("probe")
    /\ UNCHANGED <<moreBatches, expansion_count, reveal_ret, iterStart, clicks, waits>>
    /\ RevealFrame

\* voir_plus_button.click()
RevealClick ==
    /\ rpc = "click"
    /\ clicks' = clicks + 1
    /\ moreBatches' = moreBatches - 1
    /\ rpc' = "wait"
    /\ pageCalls' = pageCalls + 1
    /\ UNCHANGED <<expansion_count, reveal_ret, iterStart, probes, waits, raisedAt,
                   callsAtRaise>>
    /\ RevealFrame

RevealClickRaise ==
    /\ rpc = "click"
    /\ RevealRaise("click")
    /\ UNCHANGED <<moreBatches, expansion_count, reveal_ret, iterStart, probes, clicks,
                   waits>>
    /\ RevealFrame

\* page.wait_for_timeout(2000); expansion_count += 1
RevealWait ==
    /\ rpc = "wait"
    /\ waits' = waits + 1
    /\ expansion_count' = expansion_count + 1
    /\ rpc' = "loop"
    /\ pageCalls' = pageCalls + 1
    /\ UNCHANGED <<moreBatches, reveal_ret, iterStart, probes, clicks, raisedAt,
                   callsAtRaise>>
    /\ RevealFrame

RevealWaitRaise ==
    /\ rpc = "wait"
    /\ expansion_count' = CountAfterWaitRaise(expansion_count)
    /\ RevealRaise("wait")
    /\ UNCHANGED <<moreBatches, reveal_ret, iterStart, probes, clicks, waits>>
    /\ RevealFrame

\* return expansion_count
RevealReturn ==
    /\ rpc = "return"
    /\ reveal_ret' = expansion_count
    /\ rpc' = "done"
    /\ UNCHANGED <<moreBatches, expansion_count, iterStart, probes, clicks, waits,
                   raisedAt, pageCalls, callsAtRaise>>
    /\ RevealFrame

RevealStep ==
    \/ RevealLoopHead
    \/ RevealLocate
    \/ RevealLocateRaise
    \/ RevealProbe
    \/ RevealProbeRaise
    \/ RevealClick
    \/ RevealClickRaise
    \/ RevealWait
    \/ RevealWaitRaise
    \/ RevealReturn

-----------------------------------------------------------------------------
(* sync_to_google_sheets.  calls records, in order, the credential load,   *)
(* the client construction and every request issued to the spreadsheet     *)
(* service, whether it then succeeded or raised.                           *)

\* titles a destination spreadsheet may hold
TabNames == {"Raw_Data", "raw_data", "Sheet1"}

\* datetime.now().strftime("%Y-%m-%d")
Today == "today"

SyncFrame == UNCHANGED <<envVars, revealVars, extractVars, mainVars, records>>

\* if not SPREADSHEET_ID
IdUnset(id) == id = ""

\* faulty variant: the empty-data test left out
NoData_Unchecked(data) == FALSE

\* if not keywords_data
NoData(data) == data = <<>>

\* faulty variant: the tab name compared without regard to case
TabExists_AnyCase(names) == names \cap {"Raw_Data", "raw_data"} # {}

\* if SHEET_NAME not in sheet_names (negated)
TabExists(names) == SHEET_NAME \in names

\* rows: [today, keyword, appearances, rank] per item, in order
SheetRows(data) ==
    [i \in 1..Len(data) |->
        <<Today, data[i].keyword, data[i].appearances, data[i].rank>>]

\* return False from position pc
SyncFail ==
    /\ sync_ret' = FALSE
    /\ spc' = "done"

SyncCheckId ==
    /\ spc = "start"
    /\ IF IdUnset(SPREADSHEET_ID)
         THEN SyncFail
         ELSE spc' = "check_data" /\ UNCHANGED sync_ret
    /\ UNCHANGED <<calls, sheet_names, appended>>
    /\ SyncFrame

SyncCheckData ==
    /\ spc = "check_data"
    /\ IF NoData(records)
         THEN SyncFail
         ELSE spc' = "credentials" /\ UNCHANGED sync_ret
    /\ UNCHANGED <<calls, sheet_names, appended>>
    /\ SyncFrame

\* credentials = load_google_credentials()
SyncLoadCredentials ==
    /\ spc = "credentials"
    /\ calls' = Append(calls, "credentials")
    /\ spc' = "build"
    /\ UNCHANGED <<sheet_names, appended, sync_ret>>
    /\ SyncFrame

\* credentials.json missing or invalid: load_google_credentials re-raises,
\* the outer except returns False
SyncLoadCredentialsRaise ==
    /\ spc = "credentials"
    /\ calls' = Append(calls, "credentials")
    /\ SyncFail
    /\ UNCHANGED <<sheet_names, appended>>
    /\ SyncFrame

\* service = build("sheets", "v4", credentials=credentials)
SyncBuild ==
    /\ spc = "build"
    /\ calls' = Append(calls, "build")
    /\ spc' = "metadata"
    /\ UNCHANGED <<sheet_names, appended, sync_ret>>
    /\ SyncFrame

SyncBuildRaise ==
    /\ spc = "build"
    /\ calls' = Append(calls, "build")
    /\ SyncFail
    /\ UNCHANGED <<sheet_names, appended>>
    /\ SyncFrame

\* service.spreadsheets().get(...).execute(); sheet_names = [...]
SyncFetchMetadata ==
    /\ spc = "metadata"
    /\ calls' = Append(calls, "get")
    /\ \E names \in SUBSET TabNames : sheet_names' = names
    /\ spc' = "verify"
    /\ UNCHANGED <<appended, sync_ret>>
    /\ SyncFrame

\* the fetch (or reading the titles out of its answer) raising
SyncFetchMetadataRaise ==
    /\ spc = "metadata"
    /\ calls' = Append(calls, "get")
    /\ SyncFail
    /\ UNCHANGED <<sheet_names, appended>>
    /\ SyncFrame

\* if SHEET_NAME not in sheet_names: return False
SyncVerifyTab ==
    /\ spc = "verify"
    /\ IF TabExists(sheet_names)
         THEN spc' = "append" /\ UNCHANGED sync_ret
         ELSE SyncFail
    /\ UNCHANGED <<calls, sheet_names, appended>>
    /\ SyncFrame

\* service.spreadsheets().values().append(...).execute(); return True
SyncAppend ==
    /\ spc = "append"
    /\ calls' = Append(calls, "append")
    /\ appended' = SheetRows(records)
    /\ sync_ret' = TRUE
    /\ spc' = "done"
    /\ UNCHANGED sheet_names
    /\ SyncFrame

\* the append raising: logged by status, return False
SyncAppendRaise ==
    /\ spc = "append"
    /\ calls' = Append(calls, "append")
    /\ SyncFail
    /\ UNCHANGED <<sheet_names, appended>>
    /\ SyncFrame

SyncStep ==
    \/ SyncCheckId
    \/ SyncCheckData
    \/ SyncLoadCredentials
    \/ SyncLoadCredentialsRaise
    \/ SyncBuild
    \/ SyncBuildRaise
    \/ SyncFetchMetadata
    \/ SyncFetchMetadataRaise
    \/ SyncVerifyTab
    \/ SyncAppend
    \/ SyncAppendRaise

-----------------------------------------------------------------------------
(* main.  The steps from browser launch to browser.close() run inside      *)
(* `with sync_playwright() as p`: an exception raised there leaves the      *)
(* block through the context manager's exit, which stops the playwright    *)
(* driver and with it the browser, context and page still open, and is     *)
(* then caught by main's except.  The summary and the error message are    *)
(* written with print, which raises when the console cannot take them.     *)

\* steps of the with block that call into playwright, in order
WithSteps == <<"launch", "new_context", "new_page", "stealth", "goto", "wait_for_selector">>

StepAfter(step) ==
    CASE step = "launch" -> "new_context"
      [] step = "new_context" -> "new_page"
      [] step = "new_page" -> "stealth"
      [] step = "stealth" -> "goto"
      [] step = "goto" -> "wait_for_selector"
      [] step = "wait_for_selector" -> "reveal_call"

\* faulty variant: the driver started without a context manager, so that
\* leaving the block releases nothing
OpenAfterExit_Leak(open) == open

\* whether a resource that was `open` is still open once the with block has
\* been left: the context manager's exit stops the driver and what it runs
OpenAfterExit(open) == FALSE

\* faulty variant: the two statuses swapped
ExitOf_Inverted(ok) == IF ok THEN 1 ELSE 0

\* return 0 if sync_successful else 1
ExitOf(ok) == IF ok THEN 0 ELSE 1

\* main's steps leave the page content and the callees' locals alone
MainFrame == UNCHANGED <<envVars, extractVars, revealVars, syncVars>>

\* auth_storage = load_auth_storage(): the stored state, or None when the
\* file is missing or unreadable (it catches every exception)
MainLoadAuth ==
    /\ mpc = "start"
    /\ \E a \in {"state", "none"} : auth_storage' = a
    /\ mpc' = "enter_playwright"
    /\ UNCHANGED <<pending, pwStarted, browserOpen, contextOpen, pageOpen, launched,
                   failedAt, main_expansion_count, scraped_count, sync_successful,
                   summaryPrinted, exit_status>>
    /\ MainFrame

\* with sync_playwright() as p
MainEnterPlaywright ==
    /\ mpc = "enter_playwright"
    /\ pwStarted' = TRUE
    /\ mpc' = "launch"
    /\ UNCHANGED <<auth_storage, pending, browserOpen, contextOpen, pageOpen, launched,
                   failedAt, main_expansion_count, scraped_count, sync_successful,
                   summaryPrinted, exit_status>>
    /\ MainFrame

\* the driver failing to start: nothing was entered, main's except catches it
MainEnterPlaywrightRaise ==
    /\ mpc = "enter_playwright"
    /\ failedAt' = "enter_playwright"
    /\ mpc' = "except"
    /\ UNCHANGED <<auth_storage, pending, pwStarted, browserOpen, contextOpen, pageOpen,
                   launched, main_expansion_count, scraped_count, sync_successful,
                   summaryPrinted, exit_status>>
    /\ MainFrame

\* browser = p.chromium.launch(...); context = browser.new_context(...);
\* page = context.new_page(); Stealth().apply_stealth_sync(page);
\* page.goto(...); page.wait_for_selector(...): one of them returning
MainWithStep ==
    /\ \E i \in DOMAIN WithSteps : mpc = WithSteps[i]
    /\ browserOpen' = (browserOpen \/ mpc = "launch")
    /\ launched' = (launched \/ mpc = "launch")
    /\ contextOpen' = (contextOpen \/ mpc = "new_context")
    /\ pageOpen' = (pageOpen \/ mpc = "new_page")
    /\ mpc' = StepAfter(mpc)
    /\ UNCHANGED <<auth_storage, pending, pwStarted, failedAt, main_expansion_count,
                   scraped_count, sync_successful, summaryPrinted, exit_status>>
    /\ MainFrame

\* one of them raising (the row wait's timeout included)
MainWithStepRaise ==
    /\ \E i \in DOMAIN WithSteps : mpc = WithSteps[i]
    /\ failedAt' = mpc
    /\ pending' = TRUE
    /\ mpc' = "exit_playwright"
    /\ UNCHANGED <<auth_storage, pwStarted, browserOpen, contextOpen, pageOpen, launched,
                   main_expansion_count, scraped_count, sync_successful, summaryPrinted,
                   exit_status>>
    /\ MainFrame

\* expansion_count = expand_keyword_table(page): the call
MainCallReveal ==
    /\ mpc = "reveal_call"
    /\ rpc = "idle"
    /\ rpc' = "loop"
    /\ mpc' = "reveal"
    /\ UNCHANGED <<auth_storage, pending, pwStarted, browserOpen, contextOpen, pageOpen,
                   launched, failedAt, main_expansion_count, scraped_count,
                   sync_successful, summaryPrinted, exit_status>>
    /\ UNCHANGED <<expansion_count, reveal_ret, iterStart, probes, clicks, waits,
                   raisedAt, pageCalls, callsAtRaise>>
    /\ UNCHANGED <<envVars, extractVars, syncVars>>

\* ... and its return
MainRevealReturn ==
    /\ mpc = "reveal"
    /\ rpc = "done"
    /\ main_expansion_count' = reveal_ret
    /\ mpc' = "scrape_call"
    /\ UNCHANGED <<auth_storage, pending, pwStarted, browserOpen, contextOpen, pageOpen,
                   launched, failedAt, scraped_count, sync_successful, summaryPrinted,
                   exit_status>>
    /\ MainFrame

\* keywords_data = scrape_keyword_data(page): the call
MainCallScrape ==
    /\ mpc = "scrape_call"
    /\ epc = "idle"
    /\ epc' = "start"
    /\ mpc' = "scrape"
    /\ UNCHANGED <<auth_storage, pending, pwStarted, browserOpen, contextOpen, pageOpen,
                   launched, failedAt, main_expansion_count, scraped_count,
                   sync_successful, summaryPrinted, exit_status>>
    /\ UNCHANGED <<rows, rowIdx, keywords_data, scrape_ret, emittedFrom, listRaised>>
    /\ UNCHANGED <<envVars, revealVars, syncVars>>

\* ... its return; scraped_count = len(keywords_data)
MainScrapeReturn ==
    /\ mpc = "scrape"
    /\ epc = "done"
    /\ records' = scrape_ret
    /\ scraped_count' = Len(scrape_ret)
    /\ mpc' = "close"
    /\ UNCHANGED <<auth_storage, pending, pwStarted, browserOpen, contextOpen, pageOpen,
                   launched, failedAt, main_expansion_count, sync_successful,
                   summaryPrinted, exit_status>>
    /\ UNCHANGED <<spc, calls, sheet_names, appended, sync_ret>>
    /\ UNCHANGED <<envVars, extractVars, revealVars>>

\* browser.close(): closes the browser with its context and page
MainCloseBrowser ==
    /\ mpc = "close"
    /\ browserOpen' = FALSE
    /\ contextOpen' = FALSE
    /\ pageOpen' = FALSE
    /\ mpc' = "exit_playwright"
    /\ UNCHANGED <<auth_storage, pending, pwStarted, launched, failedAt,
                   main_expansion_count, scraped_count, sync_successful, summaryPrinted,
                   exit_status>>
    /\ MainFrame

\* browser.close() raising
MainCloseBrowserRaise ==
    /\ mpc = "close"
    /\ failedAt' = "close"
    /\ pending' = TRUE
    /\ mpc' = "exit_playwright"
    /\ UNCHANGED <<auth_storage, pwStarted, browserOpen, contextOpen, pageOpen, launched,
                   main_expansion_count, scraped_count, sync_successful, summaryPrinted,
                   exit_status>>
    /\ MainFrame

\* leaving the with block, normally or with an exception on its way to
\* main's except
MainExitPlaywright ==
    /\ mpc = "exit_playwright"
    /\ pwStarted' = OpenAfterExit(pwStarted)
    /\ browserOpen' = OpenAfterExit(browserOpen)
    /\ contextOpen' = OpenAfterExit(contextOpen)
    /\ pageOpen' = OpenAfterExit(pageOpen)
    /\ pending' = FALSE
    /\ mpc' = IF pending THEN "except" ELSE "sync_call"
    /\ UNCHANGED <<auth_storage, launched, failedAt, main_expansion_count, scraped_count,
                   sync_successful, summaryPrinted, exit_status>>
    /\ MainFrame

\* sync_successful = sync_to_google_sheets(keywords_data): the call
MainCallSync ==
    /\ mpc = "sync_call"
    /\ spc = "idle"
    /\ spc' = "start"
    /\ mpc' = "sync"
    /\ UNCHANGED <<auth_storage, pending, pwStarted, browserOpen, contextOpen, pageOpen,
                   launched, failedAt, main_expansion_count, scraped_count,
                   sync_successful, summaryPrinted, exit_status>>
    /\ UNCHANGED <<records, calls, sheet_names, appended, sync_ret>>
    /\ UNCHANGED <<envVars, extractVars, revealVars>>

\* ... and its return
MainSyncReturn ==
    /\ mpc = "sync"
    /\ spc = "done"
    /\ sync_successful' = sync_ret
    /\ mpc' = "summary"
    /\ UNCHANGED <<auth_storage, pending, pwStarted, browserOpen, contextOpen, pageOpen,
                   launched, failedAt, main_expansion_count, scraped_count,
                   summaryPrinted, exit_status>>
    /\ MainFrame

\* the summary prints; return 0 if sync_successful else 1
MainSummary ==
    /\ mpc = "summary"
    /\ summaryPrinted' = TRUE
    /\ exit_status' = ExitOf(sync_successful)
    /\ mpc' = "returned"
    /\ UNCHANGED <<auth_storage, pending, pwStarted, browserOpen, contextOpen, pageOpen,
                   launched, failedAt, main_expansion_count, scraped_count,
                   sync_successful>>
    /\ MainFrame

\* a summary print raising: caught by main's except
MainSummaryRaise ==
    /\ mpc = "summary"
    /\ failedAt' = "summary"
    /\ mpc' = "except"
    /\ UNCHANGED <<auth_storage, pending, pwStarted, browserOpen, contextOpen, pageOpen,
                   launched, main_expansion_count, scraped_count, sync_successful,
                   summaryPrinted, exit_status>>
    /\ MainFrame

\* except Exception: logger.error(...); print(f"\nError: {e}"); return 1
MainExcept ==
    /\ mpc = "except"
    /\ exit_status' = 1
    /\ mpc' = "returned"
    /\ UNCHANGED <<auth_storage, pending, pwStarted, browserOpen, contextOpen, pageOpen,
                   launched, failedAt, main_expansion_count, scraped_count,
                   sync_successful, summaryPrinted>>
    /\ MainFrame

\* the print of the error message raising: the exception leaves main, which
\* returns no status
MainExceptRaise ==
    /\ mpc = "except"
    /\ mpc' = "propagated"
    /\ UNCHANGED <<auth_storage, pending, pwStarted, browserOpen, contextOpen, pageOpen,
                   launched, failedAt, main_expansion_count, scraped_count,
                   sync_successful, summaryPrinted, exit_status>>
    /\ MainFrame

MainStep ==
    \/ MainLoadAuth
    \/ MainEnterPlaywright
    \/ MainEnterPlaywrightRaise
    \/ MainWithStep
    \/ MainWithStepRaise
    \/ MainCallReveal
    \/ MainRevealReturn
    \/ MainCallScrape
    \/ MainScrapeReturn
    \/ MainCloseBrowser
    \/ MainCloseBrowserRaise
    \/ MainExitPlaywright
    \/ MainCallSync
    \/ MainSyncReturn
    \/ MainSummary
    \/ MainSummaryRaise
    \/ MainExcept
    \/ MainExceptRaise

-----------------------------------------------------------------------------
(* The state of each function before it is called *)

RevealIdle(pc) ==
    /\ rpc = pc
    /\ expansion_count = 0
    /\ reveal_ret = 0
    /\ iterStart = 0
    /\ probes = 0
    /\ clicks = 0
    /\ waits = 0
    /\ raisedAt = "none"
    /\ pageCalls = 0
    /\ callsAtRaise = 0

ExtractIdle(pc) ==
    /\ epc = pc
    /\ rows = <<>>
    /\ rowIdx = 0
    /\ keywords_data = <<>>
    /\ scrape_ret = <<>>
    /\ emittedFrom = <<>>
    /\ listRaised = FALSE

SyncIdle(pc) ==
    /\ spc = pc
    /\ calls = <<>>
    /\ sheet_names = {}
    /\ appended = <<>>
    /\ sync_ret = FALSE

MainIdle(pc) ==
    /\ mpc = pc
    /\ auth_storage = "none"
    /\ pending = FALSE
    /\ pwStarted = FALSE
    /\ browserOpen = FALSE
    /\ contextOpen = FALSE
    /\ pageOpen = FALSE
    /\ launched = FALSE
    /\ failedAt = "none"
    /\ main_expansion_count = 0
    /\ scraped_count = 0
    /\ sync_successful = FALSE
    /\ summaryPrinted = FALSE
    /\ exit_status = -1

-----------------------------------------------------------------------------
(* SpecExtract: scrape_keyword_data called on a page of up to MaxRows rows *)

InitExtract ==
    /\ moreBatches = 0
    /\ initialBatches = 0
    /\ pageRows \in SeqsUpTo(RowSamples, MaxRows)
    /\ SPREADSHEET_ID = ""
    /\ RevealIdle("idle")
    /\ ExtractIdle("start")
    /\ SyncIdle("idle")
    /\ records = <<>>
    /\ MainIdle("idle")

NextExtract == ScrapeStep

SpecExtract == InitExtract /\ [][NextExtract]_vars

-----------------------------------------------------------------------------
(* SpecReveal: expand_keyword_table called on a page hiding up to          *)
(* MaxBatches batches                                                      *)

InitReveal ==
    /\ moreBatches \in 0..MaxBatches
    /\ initialBatches = moreBatches
    /\ pageRows = <<>>
    /\ SPREADSHEET_ID = ""
    /\ RevealIdle("loop")
    /\ ExtractIdle("idle")
    /\ SyncIdle("idle")
    /\ records = <<>>
    /\ MainIdle("idle")

NextReveal == RevealStep

SpecReveal == InitReveal /\ [][NextReveal]_vars

\* every page call returns or raises, so the function keeps stepping until it returns
SpecRevealFair == SpecReveal /\ WF_vars(NextReveal)

-----------------------------------------------------------------------------
(* SpecSync: sync_to_google_sheets called with up to MaxRecords records    *)

\* the records of the end-to-end scenario, as scrape_keyword_data builds them
RecordSamples == { RowOutcome(RowPython).rec, RowOutcome(RowJava).rec }

InitSync ==
    /\ moreBatches = 0
    /\ initialBatches = 0
    /\ pageRows = <<>>
    /\ SPREADSHEET_ID \in {"", "sheet-id"}
    /\ RevealIdle("idle")
    /\ ExtractIdle("idle")
    /\ SyncIdle("start")
    /\ records \in SeqsUpTo(RecordSamples, MaxRecords)
    /\ MainIdle("idle")

NextSync == SyncStep

SpecSync == InitSync /\ [][NextSync]_vars

-----------------------------------------------------------------------------
(* SpecMain: one run of main, on a page hiding up to MainBatches batches   *)
(* and holding up to MainRows rows                                        *)

InitMain ==
    /\ moreBatches \in 0..MainBatches
    /\ initialBatches = moreBatches
    /\ pageRows \in SeqsUpTo(MainRowSamples, MainRows)
    /\ SPREADSHEET_ID \in {"", "sheet-id"}
    /\ RevealIdle("idle")
    /\ ExtractIdle("idle")
    /\ SyncIdle("idle")
    /\ records = <<>>
    /\ MainIdle("start")

NextMain ==
    \/ MainStep
    \/ RevealStep
    \/ ScrapeStep
    \/ SyncStep

SpecMain == InitMain /\ [][NextMain]_vars

-----------------------------------------------------------------------------
(* Properties of expand_keyword_table *)

\* C1: on a page whose reveal control is visible for exactly the first N
\* probes, N <= 100, and with no page call raising, expand_keyword_table
\* returns N after exactly N activations; when the control is never visible
\* it returns 0 after a single probe, with no activation and no wait.
C1_RevealReturnsN ==
    (rpc = "done" /\ raisedAt = "none" /\ initialBatches <= max_attempts) =>
        /\ reveal_ret = initialBatches
        /\ clicks = initialBatches
        /\ moreBatches = 0
        /\ (initialBatches = 0 => probes = 1 /\ clicks = 0 /\ waits = 0)

\* the page of exactly max_attempts batches, fully revealed
C1_Witness ==
    /\ rpc = "done"
    /\ raisedAt = "none"
    /\ initialBatches = max_attempts
    /\ reveal_ret = max_attempts

\* C2: whatever the page does, expand_keyword_table returns, and neither its
\* count nor the number of activations ever exceeds the cap of 100.
C2_CappedAndTerminates ==
    /\ [](/\ expansion_count <= max_attempts
          /\ clicks <= max_attempts
          /\ (rpc = "done" => reveal_ret <= max_attempts))
    /\ <>(rpc = "done")

\* a control that never goes away: the loop stops at the cap
C2_Witness ==
    /\ rpc = "done"
    /\ initialBatches > max_attempts
    /\ moreBatches > 0
    /\ reveal_ret = max_attempts
    /\ clicks = max_attempts

\* C9 as stated: the returned count is the number of activations that were
\* performed.
C9_CountIsActivations == rpc = "done" => reveal_ret = clicks

\* C9 amended: the returned count is the number of iterations whose
\* activation and settle wait both completed; it is the number of
\* activations, less one when the settle wait raised.
C9_CountIsSettledActivations ==
    rpc = "done" =>
        /\ reveal_ret = waits
        /\ reveal_ret = clicks - (IF raisedAt = "wait" THEN 1 ELSE 0)

\* two activations, the second one's settle wait raising
C9_Witness ==
    /\ rpc = "done"
    /\ raisedAt = "wait"
    /\ clicks = 2
    /\ reveal_ret = 1

-----------------------------------------------------------------------------
(* Properties of scrape_keyword_data *)

\* a row with at least 3 text-bearing children, none of whose page calls
\* raises, and whose first child's text is not empty once trimmed
Qualifies(row) ==
    /\ ~row.spansRaise
    /\ Len(row.cells) >= 3
    /\ \A i \in 1..3 : row.cells[i].kind = "text"
    /\ Strip(row.cells[1].text) # <<>>

\* the page indices of the qualifying rows, in page order
QualifyingIndices(pr) ==
    SelectSeq([i \in 1..Len(pr) |-> i], LAMBDA i : Qualifies(pr[i]))

\* the returned records are those of the rows at page indices `idx`
ReturnsRowsAt(idx) ==
    /\ emittedFrom = idx
    /\ Len(scrape_ret) = Len(idx)
    /\ \A j \in 1..Len(idx) :
          /\ j \in DOMAIN scrape_ret
          /\ scrape_ret[j].keyword = Strip(pageRows[idx[j]].cells[1].text)

NoEmptyKeyword ==
    /\ \A j \in DOMAIN keywords_data : keywords_data[j].keyword # <<>>
    /\ \A j \in DOMAIN scrape_ret : scrape_ret[j].keyword # <<>>

\* C3 as stated: scrape_keyword_data returns exactly the qualifying rows of
\* the page, in page order, and never a record with an empty keyword.
C3_ReturnsQualifyingRows ==
    /\ NoEmptyKeyword
    /\ epc = "done" => ReturnsRowsAt(QualifyingIndices(pageRows))

\* C3 amended: it does so provided the call that lists the keyword rows does
\* not raise; when that call raises it returns the empty sequence whatever
\* rows the page holds.
C3_ReturnsQualifyingRowsIfListed ==
    /\ NoEmptyKeyword
    /\ epc = "done" =>
          IF listRaised THEN scrape_ret = <<>>
          ELSE ReturnsRowsAt(QualifyingIndices(pageRows))

\* a skipped row followed by an emitted one
C3_Witness ==
    /\ epc = "done"
    /\ ~listRaised
    /\ Len(pageRows) = 2
    /\ ~Qualifies(pageRows[1])
    /\ scrape_ret # <<>>
    /\ emittedFrom = <<2>>

\* C4: every emitted record has appearances >= 0 and rank >= 0.
C4_RecordsNonNegative ==
    \A j \in DOMAIN keywords_data :
        keywords_data[j].appearances >= 0 /\ keywords_data[j].rank >= 0

-----------------------------------------------------------------------------
(* Properties of sync_to_google_sheets *)

Issued(call) == \E i \in DOMAIN calls : calls[i] = call

\* C5: with the destination identifier unset or no records,
\* sync_to_google_sheets returns False, and it has not loaded the
\* credential, built the client or issued any request.
C5_FailsFast ==
    (SPREADSHEET_ID = "" \/ records = <<>>) =>
        /\ calls = <<>>
        /\ spc \in {"start", "check_data", "done"}
        /\ (spc = "done" => sync_ret = FALSE)

\* identifier set, no records
C5_Witness ==
    /\ spc = "done"
    /\ SPREADSHEET_ID # ""
    /\ records = <<>>
    /\ sync_ret = FALSE

-----------------------------------------------------------------------------
(* Properties of main *)

\* the append request was issued and succeeded
AppendSucceeded == Issued("append") /\ appended # <<>>

\* C7 as stated: main returns 0 exactly when publish was reached with a
\* non-empty batch and the append succeeded, and 1 otherwise.
C7_ZeroIffAppendSucceeded ==
    mpc = "returned" =>
        /\ exit_status \in {0, 1}
        /\ exit_status = 0 <=> (AppendSucceeded /\ records # <<>>)

\* C7 amended: main returns 0 exactly when publish was reached with a
\* non-empty batch, the append succeeded and the summary was then printed
\* without raising; every other run that returns a status returns 1, and a
\* run returns no status only when printing the error message itself raised.
C7_ZeroIffAppendedAndSummarised ==
    /\ mpc = "returned" =>
          /\ exit_status \in {0, 1}
          /\ exit_status = 0 <=> (AppendSucceeded /\ records # <<>> /\ summaryPrinted)
          /\ exit_status = 0 => (spc = "done" /\ sync_ret /\ Len(appended) = Len(records))
    /\ mpc # "returned" => exit_status = -1
    /\ mpc = "propagated" => failedAt # "none"

\* a successful publish whose summary could not be printed
C7_Witness ==
    /\ mpc = "returned"
    /\ AppendSucceeded
    /\ failedAt = "summary"
    /\ exit_status = 1

\* C8: once the browser has been launched, whichever way the with block is
\* left, the browser, its context and page and the driver are released
\* before main reports a status.
C8_ReleasedBeforeExit ==
    mpc \in {"except", "sync_call", "sync", "summary", "returned", "propagated"} =>
        /\ ~browserOpen
        /\ ~contextOpen
        /\ ~pageOpen
        /\ ~pwStarted

\* navigation raised with browser, context and page open
C8_Witness ==
    /\ mpc = "returned"
    /\ launched
    /\ failedAt = "goto"
    /\ exit_status = 1

\* C10: once a page call of the reveal loop has raised, the loop makes no
\* further page call, expand_keyword_table returns the count the failing
\* iteration started with, and main goes on to extraction with it.
C10_RaiseEndsLoopOnly ==
    raisedAt # "none" =>
        /\ pageCalls = callsAtRaise
        /\ rpc \in {"return", "done"}
        /\ expansion_count = iterStart
        /\ rpc = "done" =>
              /\ reveal_ret = iterStart
              /\ failedAt \in {"none", "close", "summary"}
              /\ mpc \in {"reveal", "scrape_call"} \/
                    (epc # "idle" /\ main_expansion_count = iterStart)

\* one expansion done, then the probe raised; extraction has run
C10_Witness ==
    /\ raisedAt = "probe"
    /\ main_expansion_count = 1
    /\ epc = "done"
    /\ mpc = "close"

=============================================================================
